---- MODULE Spec2Model ----
(***************************************************************************)
(* A model of src/src/objects-tasks.js: the cssSelectorBuilder object and  *)
(* the selector instances created from it, the sellTickets loop and the    *)
(* compareObjects loop.                                                    *)
(*                                                                         *)
(* JavaScript strings are sequences of one-character strings, so that      *)
(* String.prototype.includes and the template literals are computed on the *)
(* characters.  Objects live in a heap (a sequence of records); heap[1] is *)
(* the cssSelectorBuilder object literal itself.                           *)
(***************************************************************************)
EXTENDS Integers, Sequences, FiniteSets, TLC

VARIABLES
    heap,       \* the selector objects: heap[i] = [selector, lastPart]
    made,       \* history: made[i] is the call that returned heap[i]
    lastCall,   \* the most recent call with what it returned or threw
    queue, pos, cash25, cash50, canSell, tpc,      \* sellTickets
    obj1, obj2, keys1, i, cres, cpc                \* compareObjects

vars == <<heap, made, lastCall, queue, pos, cash25, cash50, canSell, tpc,
          obj1, obj2, keys1, i, cres, cpc>>

builderVars == <<heap, made, lastCall>>
ticketVars  == <<queue, pos, cash25, cash50, canSell, tpc>>
compareVars == <<obj1, obj2, keys1, i, cres, cpc>>

----------------------------------------------------------------------------
(* Bounds and inputs                                                       *)

MaxHeap == 4          \* objects alive at once, the builder included; calls
                      \* are made while there is room for their result

Names == { <<"d","i","v">>, <<"t","a","b","l","e">> }
AttrSpecs == { <<"x","=","'",":",":","'">> }
Combinators == { <<"+">> }

MaxQueue == 7         \* customers in the ticket queue
Bills == {25, 50, 100}

\* JavaScript values, each with its type
Num0 == [t |-> "number", v |-> "0"]
Num1 == [t |-> "number", v |-> "1"]
Num2 == [t |-> "number", v |-> "2"]
EmptyString == [t |-> "string", v |-> ""]
False == [t |-> "boolean", v |-> "false"]
Undefined == [t |-> "undefined", v |-> ""]
Values == {Num0, Num1, Num2, EmptyString, False}
Keys == {"a", "b"}

----------------------------------------------------------------------------
(* String helpers                                                          *)

\* String.prototype.includes
includes(s, t) ==
    \E k \in 0..(Len(s) - Len(t)) : SubSeq(s, k + 1, k + Len(t)) = t

\* Array.prototype.indexOf on a sequence, 0-based, -1 when absent
indexOf(arr, x) ==
    IF \E k \in DOMAIN arr : arr[k] = x
    THEN (CHOOSE k \in DOMAIN arr :
            arr[k] = x /\ \A j \in DOMAIN arr : arr[j] = x => k <= j) - 1
    ELSE -1

----------------------------------------------------------------------------
(* cssSelectorBuilder                                                      *)

Builder == 1          \* heap index of the cssSelectorBuilder object literal
Temp == 0             \* a receiver that no variable refers to
NoObject == 0         \* nothing returned (the call threw)

order == <<"element", "id", "class", "attr", "pseudoClass", "pseudoElement">>

OrderError == "order"
DuplicateError == "duplicate"
NoError == "none"

Throw(h, e) == [heap |-> h, ret |-> NoObject, err |-> e]

\* create(newSelector, currPart): a new object, the receiver untouched
createInPlace(h, this, newSelector, currPart) ==
    IF this = Temp
    THEN [heap |-> Append(h, [selector |-> newSelector, lastPart |-> currPart]),
          ret |-> Len(h) + 1, err |-> NoError]
    ELSE [heap |-> [h EXCEPT ![this] =
                       [selector |-> newSelector, lastPart |-> currPart]],
          ret |-> this, err |-> NoError]

create(h, this, newSelector, currPart) ==
    [heap |-> Append(h, [selector |-> newSelector, lastPart |-> currPart]),
     ret |-> Len(h) + 1, err |-> NoError]

\* validate(currentSelector, newPart): TRUE when it throws
validate(currentSelector, newPart) ==
    LET afterTable == IF includes(currentSelector, <<"t","a","b","l","e">>)
                         /\ newPart = <<"d","i","v">>
                      THEN FALSE ELSE TRUE
        isCompatible == IF includes(currentSelector, newPart)
                        THEN FALSE ELSE afterTable
    IN  ~ isCompatible

\* checkOrder(part): TRUE when it throws
checkOrderInclusive(h, this, part) ==
    LET lastPartInd == indexOf(order, h[this].lastPart)
        partInd == indexOf(order, part)
    IN  lastPartInd > -1 /\ lastPartInd >= partInd

checkOrder(h, this, part) ==
    LET lastPartInd == indexOf(order, h[this].lastPart)
        partInd == indexOf(order, part)
    IN  lastPartInd > -1 /\ lastPartInd > partInd

element(h, this, value) ==
    IF checkOrder(h, this, "element") THEN Throw(h, OrderError)
    ELSE IF validate(h[this].selector, value) THEN Throw(h, DuplicateError)
    ELSE create(h, this, h[this].selector \o value, "element")

\* an id that records its part before validating
idMarksFirst(h, this, value) ==
    IF checkOrder(h, this, "id") THEN Throw(h, OrderError)
    ELSE IF validate(h[this].selector, <<"#">>)
         THEN Throw([h EXCEPT ![this].lastPart = "id"], DuplicateError)
    ELSE create(h, this, h[this].selector \o <<"#">> \o value, "id")

id(h, this, value) ==
    IF checkOrder(h, this, "id") THEN Throw(h, OrderError)
    ELSE IF validate(h[this].selector, <<"#">>) THEN Throw(h, DuplicateError)
    ELSE create(h, this, h[this].selector \o <<"#">> \o value, "id")

class(h, this, value) ==
    IF checkOrder(h, this, "class") THEN Throw(h, OrderError)
    ELSE create(h, this, h[this].selector \o <<".">> \o value, "class")

attr(h, this, value) ==
    IF checkOrder(h, this, "attr") THEN Throw(h, OrderError)
    ELSE create(h, this, h[this].selector \o <<"[">> \o value \o <<"]">>, "attr")

pseudoClass(h, this, value) ==
    IF checkOrder(h, this, "pseudoClass") THEN Throw(h, OrderError)
    ELSE create(h, this, h[this].selector \o <<":">> \o value, "pseudoClass")

pseudoElement(h, this, value) ==
    IF checkOrder(h, this, "pseudoElement") THEN Throw(h, OrderError)
    ELSE IF validate(h[this].selector, <<":", ":">>) THEN Throw(h, DuplicateError)
    ELSE create(h, this, h[this].selector \o <<":", ":">> \o value, "pseudoElement")

stringify(h, this) == h[this].selector

\* a combine that keeps the right operand's part
combineKeepsPart(h, selector1, combinator, selector2) ==
    create(h, Temp,
           stringify(h, selector1) \o <<" ">> \o combinator \o <<" ">>
               \o stringify(h, selector2),
           h[selector2].lastPart)

\* a combine that joins the operands the wrong way round
combineSwapped(h, selector1, combinator, selector2) ==
    create(h, Temp,
           stringify(h, selector2) \o <<" ">> \o combinator \o <<" ">>
               \o stringify(h, selector1),
           "")

\* Object.create(cssSelectorBuilder).create(text): currPart defaults to ''
combine(h, selector1, combinator, selector2) ==
    create(h, Temp,
           stringify(h, selector1) \o <<" ">> \o combinator \o <<" ">>
               \o stringify(h, selector2),
           "")

----------------------------------------------------------------------------
(* The calls a client makes                                                *)

AppendOps == {"element", "id", "class", "attr", "pseudoClass", "pseudoElement"}

NoCall == [op |-> "none", recv |-> 0, value |-> <<>>, arg2 |-> 0,
           ret |-> NoObject, err |-> NoError, out |-> <<>>]

\* the effect of a call that gave r.  After a call that threw, the client
\* reads a selector back with stringify before it goes on building.
Call(r, op, this, value, arg2) ==
    /\ Len(heap) < MaxHeap
    /\ lastCall.err = NoError
    /\ heap' = r.heap
    /\ made' = IF Len(r.heap) > Len(heap)
               THEN Append(made, [op |-> op, recv |-> this, value |-> value,
                                  arg2 |-> arg2])
               ELSE made
    /\ lastCall' = [op |-> op, recv |-> this, value |-> value, arg2 |-> arg2,
                    ret |-> r.ret, err |-> r.err, out |-> <<>>]
    /\ UNCHANGED <<ticketVars, compareVars>>

Element(this, value) == Call(element(heap, this, value), "element", this, value, 0)
Id(this, value) == Call(id(heap, this, value), "id", this, value, 0)
Class(this, value) == Call(class(heap, this, value), "class", this, value, 0)
Attr(this, value) == Call(attr(heap, this, value), "attr", this, value, 0)
PseudoClass(this, value) ==
    Call(pseudoClass(heap, this, value), "pseudoClass", this, value, 0)
PseudoElement(this, value) ==
    Call(pseudoElement(heap, this, value), "pseudoElement", this, value, 0)
Combine(selector1, combinator, selector2) ==
    Call(combine(heap, selector1, combinator, selector2),
         "combine", selector1, combinator, selector2)

Stringify(this) ==
    /\ Len(heap) < MaxHeap
    /\ lastCall' = [op |-> "stringify", recv |-> this, value |-> <<>>,
                    arg2 |-> 0, ret |-> NoObject, err |-> NoError,
                    out |-> stringify(heap, this)]
    /\ UNCHANGED <<heap, made, ticketVars, compareVars>>

TicketsIdle ==
    /\ queue = <<>> /\ pos = 0 /\ cash25 = 0 /\ cash50 = 0
    /\ canSell = FALSE /\ tpc = "idle"

CompareIdle ==
    /\ obj1 = <<>> /\ obj2 = <<>> /\ keys1 = <<>> /\ i = 0
    /\ cres = FALSE /\ cpc = "idle"

BuilderIdle ==
    /\ heap = << [selector |-> <<>>, lastPart |-> ""] >>
    /\ made = << [op |-> "builder", recv |-> 0, value |-> <<>>, arg2 |-> 0] >>
    /\ lastCall = NoCall

Init == BuilderIdle /\ TicketsIdle /\ CompareIdle

Next ==
    \/ \E this \in DOMAIN heap, value \in Names : Element(this, value)
    \/ \E this \in DOMAIN heap, value \in Names : Id(this, value)
    \/ \E this \in DOMAIN heap, value \in Names : Class(this, value)
    \/ \E this \in DOMAIN heap, value \in AttrSpecs : Attr(this, value)
    \/ \E this \in DOMAIN heap, value \in Names : PseudoClass(this, value)
    \/ \E this \in DOMAIN heap, value \in Names : PseudoElement(this, value)
    \/ \E s1 \in DOMAIN heap, c \in Combinators, s2 \in DOMAIN heap :
           Combine(s1, c, s2)
    \/ \E this \in DOMAIN heap : Stringify(this)

Spec == Init /\ [][Next]_vars

----------------------------------------------------------------------------
(* sellTickets                                                             *)

\* the callback given to queue.every, with three 25s tried first for a 100
sellThreeFirst(bill, c25, c50) ==
    IF bill = 25 THEN [ok |-> TRUE, cash25 |-> c25 + 1, cash50 |-> c50]
    ELSE IF bill = 50 THEN
        IF c25 = 0 THEN [ok |-> FALSE, cash25 |-> c25, cash50 |-> c50]
        ELSE [ok |-> TRUE, cash25 |-> c25 - 1, cash50 |-> c50 + 1]
    ELSE IF bill = 100 THEN
        IF c25 >= 3 THEN [ok |-> TRUE, cash25 |-> c25 - 3, cash50 |-> c50]
        ELSE IF c50 > 0 /\ c25 > 0
             THEN [ok |-> TRUE, cash25 |-> c25 - 1, cash50 |-> c50 - 1]
        ELSE [ok |-> FALSE, cash25 |-> c25, cash50 |-> c50]
    ELSE [ok |-> TRUE, cash25 |-> c25, cash50 |-> c50]

\* the callback given to queue.every: what it returns and leaves in the till
sell(bill, c25, c50) ==
    IF bill = 25 THEN [ok |-> TRUE, cash25 |-> c25 + 1, cash50 |-> c50]
    ELSE IF bill = 50 THEN
        IF c25 = 0 THEN [ok |-> FALSE, cash25 |-> c25, cash50 |-> c50]
        ELSE [ok |-> TRUE, cash25 |-> c25 - 1, cash50 |-> c50 + 1]
    ELSE IF bill = 100 THEN
        IF c50 > 0 /\ c25 > 0
        THEN [ok |-> TRUE, cash25 |-> c25 - 1, cash50 |-> c50 - 1]
        ELSE IF c25 >= 3 THEN [ok |-> TRUE, cash25 |-> c25 - 3, cash50 |-> c50]
        ELSE [ok |-> FALSE, cash25 |-> c25, cash50 |-> c50]
    ELSE [ok |-> TRUE, cash25 |-> c25, cash50 |-> c50]

\* one call of the callback by every; a false result ends the iteration
ServeBill ==
    /\ tpc = "every" /\ pos < Len(queue)
    /\ LET r == sell(queue[pos + 1], cash25, cash50) IN
           /\ cash25' = r.cash25
           /\ cash50' = r.cash50
           /\ pos' = pos + 1
           /\ IF r.ok
              THEN canSell' = canSell /\ tpc' = "every"
              ELSE canSell' = FALSE /\ tpc' = "done"
    /\ UNCHANGED <<queue, builderVars, compareVars>>

\* every has seen the whole queue
ServedAll ==
    /\ tpc = "every" /\ pos = Len(queue)
    /\ canSell' = TRUE /\ tpc' = "done"
    /\ UNCHANGED <<queue, pos, cash25, cash50, builderVars, compareVars>>

Queues == UNION { [1..n -> Bills] : n \in 0..MaxQueue }

InitTickets ==
    /\ queue \in Queues
    /\ pos = 0 /\ cash25 = 0 /\ cash50 = 0 /\ canSell = FALSE /\ tpc = "every"
    /\ BuilderIdle /\ CompareIdle

NextTickets == ServeBill \/ ServedAll

SpecTickets == InitTickets /\ [][NextTickets]_vars

----------------------------------------------------------------------------
(* compareObjects                                                          *)

\* obj[key]: undefined for a key the object lacks
Get(obj, key) == IF key \in DOMAIN obj THEN obj[key] ELSE Undefined

\* ToBoolean
Truthy(x) == x \notin {Num0, EmptyString, False, Undefined}

\* keys1[i] as a property key: past the end it is undefined, read as the
\* key "undefined"
KeyAt(keys, k) == IF k < Len(keys) THEN keys[k + 1] ELSE "undefined"

\* the while condition
LoopCondition(o1, o2, keys, k) ==
    /\ Truthy(Get(o2, KeyAt(keys, k)))
    /\ Get(o1, KeyAt(keys, k)) = Get(o2, KeyAt(keys, k))

CompareStep ==
    /\ cpc = "while"
    /\ LoopCondition(obj1, obj2, keys1, i)
    /\ i' = i + 1
    /\ UNCHANGED <<obj1, obj2, keys1, cres, cpc, builderVars, ticketVars>>

CompareReturn ==
    /\ cpc = "while"
    /\ ~ LoopCondition(obj1, obj2, keys1, i)
    /\ cres' = (i = Len(keys1))
    /\ cpc' = "done"
    /\ UNCHANGED <<obj1, obj2, keys1, i, builderVars, ticketVars>>

Objects == UNION { [ks -> Values] : ks \in SUBSET Keys }

\* Object.keys(obj): the own keys in insertion order, which may be any order
KeyOrders(obj) ==
    { ks \in UNION { [1..n -> Keys] : n \in 0..Cardinality(Keys) } :
        /\ Len(ks) = Cardinality(DOMAIN obj)
        /\ { ks[k] : k \in DOMAIN ks } = DOMAIN obj }

InitCompare ==
    /\ obj1 \in Objects /\ obj2 \in Objects
    /\ keys1 \in KeyOrders(obj1)
    /\ i = 0 /\ cres = FALSE /\ cpc = "while"
    /\ BuilderIdle /\ TicketsIdle

NextCompare == CompareStep \/ CompareReturn

SpecCompare == InitCompare /\ [][NextCompare]_vars

----------------------------------------------------------------------------
(* What the specification says of the builder                              *)

\* the fixed category order of the specification
Rank(part) ==
    CASE part = "element" -> 0
      [] part = "id" -> 1
      [] part = "class" -> 2
      [] part = "attr" -> 3
      [] part = "pseudoClass" -> 4
      [] part = "pseudoElement" -> 5

\* the text one fragment contributes
Fragment(part, value) ==
    CASE part = "element" -> value
      [] part = "id" -> <<"#">> \o value
      [] part = "class" -> <<".">> \o value
      [] part = "attr" -> <<"[">> \o value \o <<"]">>
      [] part = "pseudoClass" -> <<":">> \o value
      [] part = "pseudoElement" -> <<":", ":">> \o value

Once == {"element", "id", "pseudoElement"}

\* the operation named part, applied
Apply(part, h, this, value) ==
    CASE part = "element" -> element(h, this, value)
      [] part = "id" -> id(h, this, value)
      [] part = "class" -> class(h, this, value)
      [] part = "attr" -> attr(h, this, value)
      [] part = "pseudoClass" -> pseudoClass(h, this, value)
      [] part = "pseudoElement" -> pseudoElement(h, this, value)

\* the category of the fragment appended last, "" when there is none
LastCategory(j) == IF made[j].op \in AppendOps THEN made[j].op ELSE ""

\* object j was built from the builder by append calls only
RECURSIVE PureChain(_)
PureChain(j) ==
    IF j = Builder THEN TRUE
    ELSE made[j].op \in AppendOps /\ PureChain(made[j].recv)

\* the append calls that built j, in call order
RECURSIVE ChainOf(_)
ChainOf(j) ==
    IF j = Builder THEN <<>>
    ELSE Append(ChainOf(made[j].recv), [part |-> made[j].op, value |-> made[j].value])

RECURSIVE Render(_)
Render(chain) ==
    IF chain = <<>> THEN <<>>
    ELSE Render(SubSeq(chain, 1, Len(chain) - 1))
             \o Fragment(chain[Len(chain)].part, chain[Len(chain)].value)

ValidSequence(chain) ==
    /\ \A k \in 1..(Len(chain) - 1) : Rank(chain[k].part) <= Rank(chain[k + 1].part)
    /\ \A k, l \in DOMAIN chain :
           (k # l /\ chain[k].part = chain[l].part) => chain[k].part \notin Once

IsAppend == lastCall.op \in AppendOps

\* C1: element, id or pseudoElement called on a chain that already holds a
\* fragment of that category raises the duplicate-fragment error, whatever
\* the two values are (an order error stands where the order check comes
\* first).
C1_SecondUseRaisesDuplicate ==
    (/\ IsAppend /\ lastCall.op \in Once
     /\ PureChain(lastCall.recv)
     /\ \E k \in DOMAIN ChainOf(lastCall.recv) :
            ChainOf(lastCall.recv)[k].part = lastCall.op)
    => /\ lastCall.err # NoError
       /\ Rank(LastCategory(lastCall.recv)) <= Rank(lastCall.op)
              => lastCall.err = DuplicateError

\* C2: a sequence of appends in non-decreasing category order, with element,
\* id and pseudoElement used at most once, raises nothing and stringifies to
\* the concatenation of its fragments in call order.
C2_ValidSequenceBuilds ==
    (/\ IsAppend
     /\ PureChain(lastCall.recv)
     /\ ValidSequence(Append(ChainOf(lastCall.recv),
                             [part |-> lastCall.op, value |-> lastCall.value])))
    => /\ lastCall.err = NoError
       /\ stringify(heap, lastCall.ret)
              = Render(Append(ChainOf(lastCall.recv),
                              [part |-> lastCall.op, value |-> lastCall.value]))

\* C3: an append raises the order error exactly when the receiver has a last
\* category and that category ranks strictly above the appended one.
C3_OrderErrorIffLower ==
    IsAppend =>
        ((lastCall.err = OrderError)
            <=> (/\ LastCategory(lastCall.recv) # ""
                 /\ Rank(lastCall.op) < Rank(LastCategory(lastCall.recv))))

C3_Witness ==
    /\ IsAppend /\ lastCall.err = OrderError
    /\ made[lastCall.recv].op = "class" /\ lastCall.op = "id"

\* C4: combine returns left text, space, combinator, space, right text, and
\* leaves both operands as they were.
C4_CombineJoins ==
    [][lastCall'.op = "combine" =>
          /\ lastCall'.err = NoError
          /\ lastCall'.ret \in DOMAIN heap'
          /\ heap'[lastCall'.ret].selector
                 = heap[lastCall'.recv].selector \o <<" ">> \o lastCall'.value
                       \o <<" ">> \o heap[lastCall'.arg2].selector
          /\ heap'[lastCall'.recv] = heap[lastCall'.recv]
          /\ heap'[lastCall'.arg2] = heap[lastCall'.arg2]]_vars

C4_Witness ==
    /\ lastCall.op = "combine" /\ lastCall.err = NoError
    /\ heap[lastCall.recv].selector # <<>>
    /\ heap[lastCall.arg2].selector # <<>>
    /\ heap[lastCall.recv].selector # heap[lastCall.arg2].selector

\* C5: a successful append returns a new state made of the receiver's text
\* and the new fragment, and changes no state that existed before it, so
\* branches taken from one state do not see each other's fragments.
C5_AppendsBranch ==
    [][(lastCall'.op \in AppendOps /\ lastCall'.err = NoError) =>
          /\ \A j \in DOMAIN heap : j \in DOMAIN heap' /\ heap'[j] = heap[j]
          /\ lastCall'.ret \in DOMAIN heap' \ DOMAIN heap
          /\ heap'[lastCall'.ret].selector
                 = heap[lastCall'.recv].selector
                       \o Fragment(lastCall'.op, lastCall'.value)]_vars

C5_Witness ==
    \E j, k \in DOMAIN heap :
        /\ j # k /\ made[j].recv = made[k].recv /\ made[j].recv # Builder
        /\ made[j].op \in AppendOps /\ made[k].op \in AppendOps
        /\ heap[j].selector # heap[k].selector

\* C6: no append on a state returned by combine raises the order error.
C6_CombinedHasNoOrder ==
    /\ \A j \in DOMAIN heap :
           made[j].op = "combine" =>
               \A part \in AppendOps, value \in Names :
                   Apply(part, heap, j, value).err # OrderError
    /\ (IsAppend /\ made[lastCall.recv].op = "combine")
           => lastCall.err # OrderError

C6_Witness ==
    /\ lastCall.op = "element" /\ lastCall.err = NoError
    /\ made[lastCall.recv].op = "combine"
    /\ made[made[lastCall.recv].arg2].op = "class"

\* C9: a call that raises returns no state and changes no state, and
\* stringify raises nothing.
C9_FailureChangesNothing ==
    [][/\ lastCall'.err # NoError =>
              /\ lastCall'.op \in AppendOps
              /\ lastCall'.ret = NoObject
              /\ heap' = heap
       /\ lastCall'.op = "stringify" =>
              /\ lastCall'.err = NoError
              /\ heap' = heap
              /\ lastCall'.out = heap[lastCall'.recv].selector]_vars

C9_Witness ==
    /\ lastCall.op = "id" /\ lastCall.err = DuplicateError
    /\ made[lastCall.recv].op = "combine"

\* C10: the builder's own selector stays empty and its lastPart unset.
C10_BuilderStaysEmpty ==
    /\ heap[Builder] = [selector |-> <<>>, lastPart |-> ""]
    /\ (lastCall.op = "stringify" /\ lastCall.recv = Builder)
           => lastCall.out = <<>>

C10_Witness ==
    /\ IsAppend /\ lastCall.recv = Builder /\ lastCall.err = NoError
    /\ \E j \in DOMAIN heap : j # lastCall.ret /\ made[j].op \in AppendOps
                                 /\ made[j].recv = Builder

\* whether some choice of change serves customers k.. of the queue, with
\* n25 and n50 bills in the till
RECURSIVE CanServe(_, _, _, _)
CanServe(q, k, n25, n50) ==
    IF k > Len(q) THEN TRUE
    ELSE \E a \in 0..3, b \in 0..1 :
            /\ 25 * a + 50 * b = q[k] - 25
            /\ a <= n25 /\ b <= n50
            /\ CanServe(q, k + 1,
                        n25 - a + (IF q[k] = 25 THEN 1 ELSE 0),
                        n50 - b + (IF q[k] = 50 THEN 1 ELSE 0))

\* C7: sellTickets returns true exactly when some choice of change serves
\* the whole queue in order from an empty till.
C7_SellIffServable ==
    tpc = "done" => (canSell <=> CanServe(queue, 1, 0, 0))

C7_Witness ==
    /\ tpc = "done" /\ canSell
    /\ queue = <<25, 25, 25, 25, 50, 100, 50>>

\* C8: compareObjects returns true exactly when the two objects have the
\* same keys and equal values for every key.
C8_TrueIffEqual ==
    cpc = "done" =>
        (cres <=> (/\ DOMAIN obj1 = DOMAIN obj2
                   /\ \A k \in DOMAIN obj1 : obj1[k] = obj2[k]))

====
